---- MODULE Spec2Model ----
(***************************************************************************)
(* django-nanoid-integration: NanoIDField, UniqueNanoIDMixin and           *)
(* upload_to_nanoid as state machines.                                     *)
(*                                                                         *)
(* Python strings are TLA+ strings, Python None is the string None, a      *)
(* keyword-argument dictionary is a function whose DOMAIN is the set of    *)
(* keywords given.                                                         *)
(*                                                                         *)
(* Four specifications share the module:                                   *)
(*   SpecField   helpers.get_alphabet_characters and the NanoIDField       *)
(*               constructor / deconstruct pair;                           *)
(*   SpecUpload  the callable returned by upload_to_nanoid;                *)
(*   Spec        one process calling save() and regenerate_nanoid();       *)
(*   SpecConc    two processes calling save() on new records.              *)
(***************************************************************************)
EXTENDS Integers, Sequences, FiniteSets, TLC

VARIABLES
    \* ---- SpecField
    fstage,     \* "args" | "built" | "deconstructed" | "rebuilt"
    fkwargs,    \* keyword arguments given to NanoIDField(...)
    fsettings,  \* django.conf.settings, the attributes that are set
    ffield,     \* the field built from fkwargs
    fdecon,     \* the keyword arguments deconstruct() returned
    ffield2,    \* the field built from fdecon
    galpha,     \* last call of get_alphabet_characters: its arguments
    gresult,    \* ... and what it returned or raised
    \* ---- SpecUpload
    storage,    \* default_storage: the set of paths that exist
    upc,        \* "idle" | "loop" | "check" | "done"
    uargs,      \* arguments of the running call
    uattempts,  \* the local variable attempts
    ugenerated, \* number of candidate paths generated by the running call
    ucand,      \* unique_path of the current iteration
    uresult,    \* what the call returned or raised
    \* ---- Spec and SpecConc
    field,      \* the model's NanoIDField `code`
    table,      \* the model's table: a set of rows [id, code]
    nextId,     \* the table's AutoField sequence
    children,   \* the dependent table: child -> value of its foreign key column
    inst,       \* in-memory model instances: slot -> [id, code] or NoInstance
    owner,      \* slot -> the process that holds the instance
    pc,         \* process -> position in the running call
    frame,      \* process -> the running call's arguments and locals
    attempts,   \* process -> candidates generated by the running for-loop
    cand,       \* process -> field_value_new of the current iteration
    result,     \* process -> what the call returned or raised
    snap        \* process -> table, children and instance when the call began

fieldVars  == <<fstage, fkwargs, fsettings, ffield, fdecon, ffield2, galpha, gresult>>
uploadVars == <<storage, upc, uargs, uattempts, ugenerated, ucand, uresult>>
ormVars    == <<field, table, nextId, children, inst, owner, pc, frame, attempts, cand, result, snap>>
vars       == <<fieldVars, uploadVars, ormVars>>

None   == "<None>"

\* Python truthiness of an optional string: None and "" are false.
Truthy(s) == s # None /\ s # ""

\* kwargs.pop(key, default) / kwargs.get(key, default): the value read.
Pop(kw, key, default) == IF key \in DOMAIN kw THEN kw[key] ELSE default

\* The dictionary with key set to value (added or overwritten).
Put(kw, key, value) ==
    [k \in (DOMAIN kw) \cup {key} |-> IF k = key THEN value ELSE kw[k]]

\* The dictionary without key.
Drop(kw, key) == [k \in (DOMAIN kw) \ {key} |-> kw[k]]

EmptyDict == [k \in {} |-> None]

(***************************************************************************)
(* alphabets.py                                                            *)
(***************************************************************************)
UPPERCASE_NUMBERS_SAFE   == "34679"
UPPERCASE_NUMBERS_UNSAFE == "01258"
UPPERCASE_LETTERS_SAFE   == "ACDEFGHKLMNPRTUVWXY"
UPPERCASE_LETTERS_UNSAFE == "BIJOQSZ"
LOWERCASE_NUMBERS_SAFE   == "347"
LOWERCASE_NUMBERS_UNSAFE == "0125689"
LOWERCASE_LETTERS_SAFE   == "acdefhjkmnprtuvwxy"
LOWERCASE_LETTERS_UNSAFE == "bgiloqsz"
NUMBERS                  == "0123456789"
SAFE_NUMBERS     == UPPERCASE_NUMBERS_SAFE \o LOWERCASE_NUMBERS_SAFE
SAFE_UPPERCASE   == UPPERCASE_LETTERS_SAFE
SAFE_LOWERCASE   == LOWERCASE_LETTERS_SAFE
UNSAFE_NUMBERS   == UPPERCASE_NUMBERS_UNSAFE \o LOWERCASE_NUMBERS_UNSAFE
UNSAFE_UPPERCASE == UPPERCASE_LETTERS_UNSAFE
UNSAFE_LOWERCASE == LOWERCASE_LETTERS_UNSAFE

ALPHABET_CONFIG ==
    [safe |-> SAFE_UPPERCASE \o SAFE_LOWERCASE \o LOWERCASE_NUMBERS_SAFE,
     unsafe |-> SAFE_NUMBERS \o UNSAFE_NUMBERS \o SAFE_UPPERCASE \o UNSAFE_UPPERCASE
                \o SAFE_LOWERCASE \o UNSAFE_LOWERCASE,
     numbers |-> NUMBERS,
     safe_letters |-> SAFE_UPPERCASE \o SAFE_LOWERCASE,
     safe_letters_uppercase |-> SAFE_UPPERCASE,
     safe_letters_lowercase |-> SAFE_LOWERCASE,
     safe_letters_uppercase_and_numbers |-> SAFE_UPPERCASE \o UPPERCASE_NUMBERS_SAFE,
     safe_letters_lowercase_and_numbers |-> SAFE_LOWERCASE \o LOWERCASE_NUMBERS_SAFE]

(***************************************************************************)
(* helpers.py                                                              *)
(***************************************************************************)
\* What a call returns or raises: [kind |-> "return", value |-> v] or
\* [kind |-> "raise", value |-> the exception].
Return(v) == [kind |-> "return", value |-> v]
Raise(e)  == [kind |-> "raise", value |-> e]

MutAlphabetPredefinedFirst(alphabet, alphabet_predefined) ==
    IF Truthy(alphabet_predefined)
    THEN IF alphabet_predefined \in DOMAIN ALPHABET_CONFIG
         THEN Return(ALPHABET_CONFIG[alphabet_predefined])
         ELSE Raise("ValueError")
    ELSE IF Truthy(alphabet) THEN Return(alphabet)
         ELSE Return(ALPHABET_CONFIG["safe"])

get_alphabet_characters(alphabet, alphabet_predefined) ==
    IF Truthy(alphabet)
    THEN Return(alphabet)
    ELSE IF Truthy(alphabet_predefined)
         THEN IF alphabet_predefined \in DOMAIN ALPHABET_CONFIG
              THEN Return(ALPHABET_CONFIG[alphabet_predefined])
              ELSE Raise("ValueError")
         ELSE Return(ALPHABET_CONFIG["safe"])

\* nanoid.generate(alphabet, size): the strings it can return, every string
\* of `size` characters of `alphabet`.
RECURSIVE Generate(_, _)
Generate(alphabet, size) ==
    IF size = 0 THEN {""}
    ELSE {s \o SubSeq(alphabet, i, i) :
            s \in Generate(alphabet, size - 1), i \in 1..Len(alphabet)}

(***************************************************************************)
(* fields.py                                                               *)
(***************************************************************************)
DEFAULT_NANOID_SIZE == 5

\* getattr(settings, 'NANOID_SIZE', 5)
SettingsNanoidSize(settings) == Pop(settings, "NANOID_SIZE", DEFAULT_NANOID_SIZE)

DefaultUnique == TRUE
DefaultEditable == FALSE

\* NanoIDField.__init__(**kwargs), with what CharField.__init__ keeps of the
\* keyword arguments it is handed (max_length, default, editable, unique,
\* primary_key).
NanoIDField(kwargs, settings) ==
    LET alphabet == Pop(kwargs, "alphabet", None)
        alphabet_predefined ==
            IF Truthy(alphabet)
            THEN Pop(kwargs, "alphabet_predefined", None)
            ELSE Pop(kwargs, "alphabet_predefined", "safe")
        size == Pop(kwargs, "size", SettingsNanoidSize(settings))
    IN  [alphabet |-> alphabet,
         alphabet_predefined |-> alphabet_predefined,
         size |-> size,
         max_length |-> size,
         default |-> None,
         editable |-> Pop(kwargs, "editable", DefaultEditable),
         unique |-> Pop(kwargs, "unique", DefaultUnique),
         primary_key |-> Pop(kwargs, "primary_key", FALSE)]

\* Field.unique, the property: unique=True was given or the field is the
\* primary key.
FieldUnique(f) == f.unique \/ f.primary_key

\* NanoIDField.nanoid(): the values it can return, or the exception of
\* get_alphabet_characters.
Nanoid(f) ==
    LET chars == get_alphabet_characters(f.alphabet, f.alphabet_predefined)
    IN  IF chars.kind = "raise" THEN chars
        ELSE Return(Generate(chars.value, f.size))

\* models.Field.deconstruct() of the host framework: the keyword arguments
\* that differ from the framework's defaults (editable=True, unique=False,
\* primary_key=False, default=NOT_PROVIDED, max_length=None).
SuperDeconstruct(f) ==
    LET k0 == [k \in {"max_length", "default"} |->
                 IF k = "max_length" THEN f.max_length ELSE f.default]
        k1 == IF f.editable # TRUE THEN Put(k0, "editable", f.editable) ELSE k0
        k2 == IF f.unique # FALSE THEN Put(k1, "unique", f.unique) ELSE k1
        k3 == IF f.primary_key # FALSE THEN Put(k2, "primary_key", TRUE) ELSE k2
    IN  k3

MutDeconstructNoSize(f) ==
    LET k0 == SuperDeconstruct(f)
        k1 == Put(k0, "alphabet", f.alphabet)
        k2 == Put(k1, "alphabet_predefined", f.alphabet_predefined)
        k4 == Put(k2, "editable", f.editable)
        k5 == Put(k4, "unique", FieldUnique(f))
        k6 == Put(k5, "max_length", f.max_length)
    IN  Drop(k6, "default")

\* NanoIDField.deconstruct(): the kwargs of the tuple it returns.
Deconstruct(f) ==
    LET k0 == SuperDeconstruct(f)
        k1 == Put(k0, "alphabet", f.alphabet)
        k2 == Put(k1, "alphabet_predefined", f.alphabet_predefined)
        k3 == Put(k2, "size", f.size)
        k4 == Put(k3, "editable", f.editable)
        k5 == Put(k4, "unique", FieldUnique(f))
        k6 == Put(k5, "max_length", f.max_length)
    IN  Drop(k6, "default")

(***************************************************************************)
(* SpecField: inputs and steps                                             *)
(***************************************************************************)
MaxFieldSize == 2

NoCall == [kind |-> "none", value |-> None]

CustomAlphabets == {None, "", "ab", "ABC123"}
PredefinedNames == {None, "", "bogus"} \cup DOMAIN ALPHABET_CONFIG

FieldKeys == {"alphabet", "alphabet_predefined", "size", "editable", "unique"}

\* Every combination of the five keyword arguments, each given or left out.
FieldKwargs ==
    {[k \in K |-> full[k]] :
        K \in SUBSET FieldKeys,
        full \in [alphabet : {None, "", "ab"},
                  alphabet_predefined : {None, "numbers", "bogus"},
                  size : 1..MaxFieldSize,
                  editable : BOOLEAN,
                  unique : BOOLEAN]}

\* settings with NANOID_SIZE unset, or set.
SettingsSet == {EmptyDict} \cup {[k \in {"NANOID_SIZE"} |-> n] : n \in 1..MaxFieldSize}

NoField == [alphabet |-> None, alphabet_predefined |-> None, size |-> 0,
            max_length |-> 0, default |-> None, editable |-> FALSE,
            unique |-> FALSE, primary_key |-> FALSE]

FieldIdle ==
    /\ fstage = "idle" /\ fkwargs = EmptyDict /\ fsettings = EmptyDict
    /\ ffield = NoField /\ fdecon = EmptyDict /\ ffield2 = NoField
    /\ galpha = [alphabet |-> None, alphabet_predefined |-> None]
    /\ gresult = NoCall

InitField ==
    /\ fstage \in {"args", "helper"}
    /\ fkwargs \in IF fstage = "args" THEN FieldKwargs ELSE {EmptyDict}
    /\ fsettings \in IF fstage = "args" THEN SettingsSet ELSE {EmptyDict}
    /\ ffield = NoField /\ fdecon = EmptyDict /\ ffield2 = NoField
    /\ galpha = [alphabet |-> None, alphabet_predefined |-> None]
    /\ gresult = NoCall

\* get_alphabet_characters(alphabet, alphabet_predefined) is called.
GetAlphabetCall ==
    /\ fstage = "helper"
    /\ \E a \in CustomAlphabets, ap \in PredefinedNames :
        /\ galpha' = [alphabet |-> a, alphabet_predefined |-> ap]
        /\ gresult' = get_alphabet_characters(a, ap)
    /\ UNCHANGED <<fstage, fkwargs, fsettings, ffield, fdecon, ffield2>>
    /\ UNCHANGED <<uploadVars, ormVars>>

\* NanoIDField(**fkwargs)
FieldConstruct ==
    /\ fstage = "args"
    /\ ffield' = NanoIDField(fkwargs, fsettings)
    /\ fstage' = "built"
    /\ UNCHANGED <<fkwargs, fsettings, fdecon, ffield2, galpha, gresult>>
    /\ UNCHANGED <<uploadVars, ormVars>>

\* field.deconstruct(), when a migration is written
FieldDeconstruct ==
    /\ fstage = "built"
    /\ fdecon' = Deconstruct(ffield)
    /\ fstage' = "deconstructed"
    /\ UNCHANGED <<fkwargs, fsettings, ffield, ffield2, galpha, gresult>>
    /\ UNCHANGED <<uploadVars, ormVars>>

\* NanoIDField(**kwargs) with the deconstructed kwargs, when the migration
\* is applied: the settings of that time need not be those of the first.
FieldReconstruct ==
    /\ fstage = "deconstructed"
    /\ fsettings' \in SettingsSet
    /\ ffield2' = NanoIDField(fdecon, fsettings')
    /\ fstage' = "rebuilt"
    /\ UNCHANGED <<fkwargs, ffield, fdecon, galpha, gresult>>
    /\ UNCHANGED <<uploadVars, ormVars>>


(***************************************************************************)
(* upload.py                                                               *)
(***************************************************************************)
Char(s, i) == SubSeq(s, i, i)

\* Positions of character c in s.
Positions(s, c) == {i \in 1..Len(s) : Char(s, i) = c}

Min(S) == CHOOSE x \in S : \A y \in S : x <= y
Max(S) == CHOOSE x \in S : \A y \in S : x >= y

\* re.sub(r'\?.*', '', filename): everything from the first "?" is removed.
RemoveQueryString(filename) ==
    IF Positions(filename, "?") = {} THEN filename
    ELSE SubSeq(filename, 1, Min(Positions(filename, "?")) - 1)

\* filename.replace(' ', '_')
RECURSIVE ReplaceSpaces(_)
ReplaceSpaces(s) ==
    IF s = "" THEN ""
    ELSE (IF Char(s, 1) = " " THEN "_" ELSE Char(s, 1))
         \o ReplaceSpaces(SubSeq(s, 2, Len(s)))

ASCII_UPPERCASE == "ABCDEFGHIJKLMNOPQRSTUVWXYZ"
ASCII_LOWERCASE == "abcdefghijklmnopqrstuvwxyz"

\* str.lower()
RECURSIVE Lower(_)
Lower(s) ==
    IF s = "" THEN ""
    ELSE LET c == Char(s, 1)
             up == Positions(ASCII_UPPERCASE, c)
         IN  (IF up = {} THEN c ELSE Char(ASCII_LOWERCASE, Min(up)))
             \o Lower(SubSeq(s, 2, Len(s)))

\* os.path.splitext(p)[-1] (posixpath): from the last dot of the last path
\* component, unless that component has only dots before it.
SplitExt(p) ==
    LET sepIndex == IF Positions(p, "/") = {} THEN 0 ELSE Max(Positions(p, "/"))
        dotIndex == IF Positions(p, ".") = {} THEN 0 ELSE Max(Positions(p, "."))
    IN  IF dotIndex > sepIndex
           /\ \E i \in (sepIndex + 1)..(dotIndex - 1) : Char(p, i) # "."
        THEN SubSeq(p, dotIndex, Len(p))
        ELSE ""

\* os.path.join(a, b) (posixpath)
PathJoin(a, b) ==
    IF Len(b) > 0 /\ Char(b, 1) = "/" THEN b
    ELSE IF a = "" \/ Char(a, Len(a)) = "/" THEN a \o b
    ELSE a \o "/" \o b

\* The unique_path built from one NanoID.
UniquePath(path, nanoid, filename, preserve_original_filename) ==
    IF preserve_original_filename
    THEN PathJoin(PathJoin(path, nanoid), ReplaceSpaces(filename))
    ELSE PathJoin(path, nanoid \o Lower(SplitExt(filename)))

UPLOAD_MAX_ATTEMPTS == 10

MutStorageExistsNever(store, unique_path) == FALSE

\* default_storage.exists(unique_path)
StorageExists(store, unique_path) == unique_path \in store

(***************************************************************************)
(* SpecUpload: inputs and steps                                            *)
(***************************************************************************)
MaxFiles == 2

UploadFilenames == {"n.T?q", "n m", "/n", ".n"}
\* (alphabet, alphabet_predefined): a custom alphabet, alone or with a name
\* that is no key of ALPHABET_CONFIG, and that name alone.
UploadAlphabets == {<<"ab", None>>, <<"ab", "bogus">>, <<None, "bogus">>}

NoUploadArgs == [filename |-> "", path |-> "", preserve_original_filename |-> FALSE,
                 remove_query_strings |-> FALSE, alphabet |-> None,
                 alphabet_predefined |-> None, size |-> 0]

UploadIdle ==
    /\ upc = "idle" /\ uargs = NoUploadArgs /\ uattempts = 0 /\ ugenerated = 0
    /\ ucand = "" /\ uresult = NoCall

InitUpload ==
    /\ storage = {}
    /\ UploadIdle

\* The callable is called: lines 101-105.
UploadBegin ==
    /\ upc = "idle"
    /\ \E fn \in UploadFilenames, pres \in BOOLEAN, rq \in BOOLEAN,
          al \in UploadAlphabets :
        uargs' = [filename |-> IF rq THEN RemoveQueryString(fn) ELSE fn,
                  path |-> "up",
                  preserve_original_filename |-> pres,
                  remove_query_strings |-> rq,
                  alphabet |-> al[1], alphabet_predefined |-> al[2], size |-> 1]
    /\ upc' = "loop"
    /\ uattempts' = 0 /\ ugenerated' = 0 /\ ucand' = "" /\ uresult' = NoCall
    /\ UNCHANGED storage
    /\ UNCHANGED <<fieldVars, ormVars>>

\* Lines 108-116: one NanoID is generated and its path built; an unknown
\* predefined alphabet raises from get_alphabet_characters.
UploadGenerate ==
    /\ upc = "loop"
    /\ LET chars == get_alphabet_characters(uargs.alphabet, uargs.alphabet_predefined)
       IN  IF chars.kind = "raise"
           THEN /\ uresult' = chars
                /\ upc' = "done"
                /\ UNCHANGED <<ucand, ugenerated>>
           ELSE /\ \E nanoid \in Generate(chars.value, uargs.size) :
                     ucand' = UniquePath(uargs.path, nanoid, uargs.filename,
                                         uargs.preserve_original_filename)
                /\ ugenerated' = ugenerated + 1
                /\ upc' = "check"
                /\ UNCHANGED uresult
    /\ UNCHANGED <<storage, uargs, uattempts>>
    /\ UNCHANGED <<fieldVars, ormVars>>

\* Lines 119-130: the existence check, the return, the next iteration or the
\* ValueError after the loop.
UploadCheck ==
    /\ upc = "check"
    /\ IF ~StorageExists(storage, ucand)
       THEN /\ uresult' = Return(ucand)
            /\ upc' = "done"
            /\ UNCHANGED uattempts
       ELSE /\ uattempts' = uattempts + 1
            /\ IF uattempts' < UPLOAD_MAX_ATTEMPTS
               THEN upc' = "loop" /\ UNCHANGED uresult
               ELSE upc' = "done" /\ uresult' = Raise("ValueError")
    /\ UNCHANGED <<storage, uargs, ugenerated, ucand>>
    /\ UNCHANGED <<fieldVars, ormVars>>

\* The caller (FileField) stores the upload under the returned path.
FileSaved ==
    /\ upc = "done" /\ uresult.kind = "return"
    /\ Cardinality(storage) < MaxFiles
    /\ storage' = storage \cup {uresult.value}
    /\ upc' = "idle" /\ uargs' = NoUploadArgs /\ uattempts' = 0 /\ ugenerated' = 0
    /\ ucand' = "" /\ uresult' = NoCall
    /\ UNCHANGED <<fieldVars, ormVars>>

\* The call's result is dropped (the exception handled, the path not used).
UploadForget ==
    /\ upc = "done"
    /\ upc' = "idle" /\ uargs' = NoUploadArgs /\ uattempts' = 0 /\ ugenerated' = 0
    /\ ucand' = "" /\ uresult' = NoCall
    /\ UNCHANGED storage
    /\ UNCHANGED <<fieldVars, ormVars>>


(***************************************************************************)
(* mixins.py: the model class, its table and the host framework's writes   *)
(***************************************************************************)
AlphabetLen == 3
MaxRows     == 2
NumInst     == 2
NumChildren == 1

Procs == {1, 2}
Slots == 1..NumInst
Kids  == 1..NumChildren

\* The custom alphabet of the model's field: the first AlphabetLen letters.
ModelAlphabet == SubSeq(ASCII_LOWERCASE, 1, AlphabetLen)

\* The model classes considered: code = NanoIDField(alphabet=..., size=1),
\* with unique left at its default, with unique=False, or as primary key.
ModelFieldKwargs ==
    LET base == [alphabet |-> ModelAlphabet, size |-> 1]
    IN  {base, Put(base, "unique", FALSE), Put(base, "primary_key", TRUE)}

MutMaxAttemptsNine == 10 - 1

nanoid_max_attempts == 10

\* get_unique_nanoid_fields(): the model's fields with unique and nanoid.
get_unique_nanoid_fields(f) == IF FieldUnique(f) THEN {"code"} ELSE {}

\* get_all_nanoid_fields()
get_all_nanoid_fields(f) == {"code"}

\* self._meta.pk.name: the field itself, or the automatic id.
PkName(f) == IF f.primary_key THEN "code" ELSE "id"

\* `not self.pk`
PkFalsy(f, obj) == IF f.primary_key THEN ~Truthy(obj.code) ELSE obj.id = 0

\* The model has reverse relations through `code` (a ForeignKey with
\* to_field='code' needs a unique target; the test on line 170 keeps
\* regenerate_nanoid away from a primary key).
HasDependents(f) == FieldUnique(f) /\ ~f.primary_key

Codes(tbl) == {r.code : r \in tbl}

MutExistsNever(tbl, value) == FALSE

\* type(self).objects.filter(**{field_name: value}).exists()
Exists(tbl, value) == \E r \in tbl : r.code = value

MutNoUniqueConstraint(f) == FALSE

\* The column carries a UNIQUE constraint when the field is unique
\* (kwargs["unique"] = unique, True unless given).
UniqueConstraint(f) == FieldUnique(f)

NoInstance == [exists |-> FALSE, id |-> 0, code |-> None]

\* super().save(force_update=..., update_fields=...) of the host framework
\* (Model._save_table) for an instance whose code is set: what it raises
\* or "ok", the table, the instance and the id sequence after it.
SaveTable(tbl, nid, f, obj, force_update, update_fields) ==
    LET same == [outcome |-> "ok", table |-> tbl, obj |-> obj, nextId |-> nid]
        row == [id |-> obj.id, code |-> obj.code]
        pk_set == IF f.primary_key THEN TRUE ELSE obj.id # 0
        targets == IF f.primary_key THEN {r \in tbl : r.code = obj.code}
                   ELSE {r \in tbl : r.id = obj.id}
        clash == UniqueConstraint(f)
                 /\ \E r \in tbl \ targets : r.code = obj.code
    IN  IF ~pk_set /\ (force_update \/ update_fields)
        THEN [same EXCEPT !.outcome = "ValueError: cannot force an update without primary key"]
        ELSE IF pk_set /\ targets # {}
        THEN \* UPDATE ... WHERE pk = ...
             IF clash THEN [same EXCEPT !.outcome = "IntegrityError"]
             ELSE [same EXCEPT !.table = (tbl \ targets) \cup {row}]
        ELSE IF pk_set /\ (force_update \/ update_fields)
        THEN [same EXCEPT !.outcome = "DatabaseError"]
        ELSE \* INSERT
             IF clash THEN [same EXCEPT !.outcome = "IntegrityError"]
             ELSE IF pk_set
             THEN [same EXCEPT !.table = tbl \cup {row}]
             ELSE [same EXCEPT !.table = tbl \cup {[id |-> nid, code |-> obj.code]},
                               !.obj = [obj EXCEPT !.id = nid],
                               !.nextId = nid + 1]

\* The foreign key constraint of the dependent table, checked when the
\* transaction commits (the framework declares it DEFERRABLE INITIALLY
\* DEFERRED): every child references a row or NULL.
ForeignKeysHold(tbl, ch) == \A c \in Kids : ch[c] = None \/ ch[c] \in Codes(tbl)

MutCheckPkFirst(f, field_name, force, confirmation) ==
    IF field_name = PkName(f)
    THEN "ValueError: cannot regenerate the primary key"
    ELSE IF field_name \notin get_all_nanoid_fields(f)
    THEN "ValueError: not a NanoID field"
    ELSE IF ~force /\ Lower(confirmation) # "y"
    THEN "UserWarning"
    ELSE "ok"

\* regenerate_nanoid, lines 167-181: the exception raised, or "ok".
RegenerateCheck(f, field_name, force, confirmation) ==
    IF field_name \notin get_all_nanoid_fields(f)
    THEN "ValueError: not a NanoID field"
    ELSE IF field_name = PkName(f)
    THEN "ValueError: cannot regenerate the primary key"
    ELSE IF ~force /\ Lower(confirmation) # "y"
    THEN "UserWarning"
    ELSE "ok"

\* related_model.objects.filter(fk__code=old_value).update(fk=self): the
\* dependent table after it (a filter on None is IS NULL).
UpdateRelations(ch, old_value, new_value) ==
    [c \in Kids |-> IF ch[c] = old_value THEN new_value ELSE ch[c]]

(***************************************************************************)
(* Spec, SpecConc: the calls of UniqueNanoIDMixin, step by step            *)
(***************************************************************************)
NoFrame == [op |-> "none", slot |-> 0, field_name |-> "", force |-> FALSE,
            confirmation |-> "", force_update |-> FALSE, update_fields |-> FALSE,
            retry |-> FALSE, broken |-> FALSE, generate |-> FALSE,
            old_value |-> None, before |-> None, queries |-> 0, held |-> 0,
            failed |-> None]

NoSnap == [table |-> {}, children |-> [c \in Kids |-> None], obj |-> NoInstance]

AllIdle == \A q \in Procs : pc[q] = "idle"

OrmOnly == UNCHANGED <<fieldVars, uploadVars>>

OrmIdle ==
    /\ field = NoField /\ table = {} /\ nextId = 1
    /\ children = [c \in Kids |-> None]
    /\ inst = [i \in Slots |-> NoInstance]
    /\ owner = [i \in Slots |-> 1]
    /\ pc = [q \in Procs |-> "idle"]
    /\ frame = [q \in Procs |-> NoFrame]
    /\ attempts = [q \in Procs |-> 0]
    /\ cand = [q \in Procs |-> None]
    /\ result = [q \in Procs |-> NoCall]
    /\ snap = [q \in Procs |-> NoSnap]

\* The call of process p ends: its result is in result[p].
Finished(p, res) ==
    /\ pc' = [pc EXCEPT ![p] = "done"]
    /\ result' = [result EXCEPT ![p] = res]

\* Model(code=v) or Model(): a new instance (the field's default is None).
New(i) ==
    /\ pc[owner[i]] = "idle"
    /\ \E v \in {None} \cup Nanoid(field).value :
        inst' = [inst EXCEPT ![i] = [exists |-> TRUE, id |-> 0, code |-> v]]
    /\ UNCHANGED <<field, table, nextId, children, owner, pc, frame, attempts, cand, result, snap>>
    /\ OrmOnly

\* Model.objects.get(...): an instance read from a row.
Load(i) ==
    /\ pc[owner[i]] = "idle"
    /\ \E r \in table :
        inst' = [inst EXCEPT ![i] = [exists |-> TRUE, id |-> r.id, code |-> r.code]]
    /\ UNCHANGED <<field, table, nextId, children, owner, pc, frame, attempts, cand, result, snap>>
    /\ OrmOnly

\* A dependent record is saved with its foreign key set to a row, or NULL.
ChildSet(c) ==
    /\ AllIdle
    /\ HasDependents(field)
    /\ \E v \in {None} \cup Codes(table) : children' = [children EXCEPT ![c] = v]
    /\ UNCHANGED <<field, table, nextId, inst, owner, pc, frame, attempts, cand, result, snap>>
    /\ OrmOnly

\* An instance whose save() finds its row and updates it.
WillUpdate(f, tbl, obj) ==
    IF f.primary_key THEN obj.code \in Codes(tbl) ELSE \E r \in tbl : r.id = obj.id

\* save() is called on the instance in slot i: line 140.
SaveBegin(p, i) ==
    /\ pc[p] = "idle"
    /\ inst[i].exists
    /\ \/ WillUpdate(field, table, inst[i])
       \/ Cardinality(table) + Cardinality({q \in Procs \ {p} : pc[q] # "idle"}) < MaxRows
    /\ frame' = [frame EXCEPT ![p] = [NoFrame EXCEPT !.op = "save", !.slot = i]]
    /\ snap' = [snap EXCEPT ![p] = [table |-> table, children |-> children, obj |-> inst[i]]]
    /\ pc' = [pc EXCEPT ![p] = "select"]
    /\ UNCHANGED <<field, table, nextId, children, inst, owner, attempts, cand, result>>
    /\ OrmOnly

\* regenerate_nanoid(field_name, force) is called on the instance in slot i:
\* lines 167-196, up to the call of save().
RegenerateBegin(p, i) ==
    /\ pc[p] = "idle"
    /\ inst[i].exists
    /\ \E field_name \in {"code", "id", "name"}, force \in BOOLEAN,
          confirmation \in {"y", "Y", "n", ""} :
        LET check == RegenerateCheck(field, field_name, force, confirmation)
            fr == [NoFrame EXCEPT !.op = "regenerate", !.slot = i,
                                  !.field_name = field_name, !.force = force,
                                  !.confirmation = confirmation,
                                  !.old_value = inst[i].code]
        IN  /\ force => confirmation = ""
            /\ snap' = [snap EXCEPT ![p] = [table |-> table, children |-> children,
                                            obj |-> inst[i]]]
            /\ IF check # "ok"
               THEN /\ frame' = [frame EXCEPT ![p] = fr]
                    /\ Finished(p, Raise(check))
                    /\ UNCHANGED inst
               ELSE IF FieldUnique(field)
               THEN /\ inst' = [inst EXCEPT ![i].code = None]
                    /\ frame' = [frame EXCEPT ![p] = [fr EXCEPT !.force_update = TRUE]]
                    /\ pc' = [pc EXCEPT ![p] = "select"]
                    /\ UNCHANGED result
               ELSE /\ \E new_value \in Nanoid(field).value :
                         inst' = [inst EXCEPT ![i].code = new_value]
                    /\ frame' = [frame EXCEPT ![p] = [fr EXCEPT !.update_fields = TRUE]]
                    /\ pc' = [pc EXCEPT ![p] = "select"]
                    /\ UNCHANGED result
    /\ UNCHANGED <<field, table, nextId, children, owner, attempts, cand>>
    /\ OrmOnly

\* ensure_unique_nanoids(), lines 83-94: which fields get a new value. A
\* query in a transaction the framework has marked for rollback raises.
Select(p) ==
    /\ pc[p] = "select"
    /\ LET fr == frame[p]
           obj == inst[fr.slot]
           is_none == obj.code = None
           queried == ~is_none /\ PkFalsy(field, obj)
           generate == is_none \/ (queried /\ Exists(table, obj.code))
       IN  IF get_unique_nanoid_fields(field) = {}
           THEN /\ pc' = [pc EXCEPT ![p] = "write"]
                /\ frame' = [frame EXCEPT ![p].generate = FALSE]
                /\ UNCHANGED <<attempts, result>>
           ELSE IF queried /\ fr.broken
           THEN /\ Finished(p, Raise("TransactionManagementError"))
                /\ UNCHANGED <<frame, attempts>>
           ELSE /\ frame' = [frame EXCEPT ![p].generate = generate,
                                          ![p].before = obj.code,
                                          ![p].queries = 0, ![p].held = 0]
                /\ attempts' = [attempts EXCEPT ![p] = 0]
                /\ pc' = [pc EXCEPT ![p] = IF generate THEN "gen" ELSE "write"]
                /\ UNCHANGED result
    /\ UNCHANGED <<field, table, nextId, children, inst, owner, cand, snap>>
    /\ OrmOnly

\* Lines 97-127, one iteration of the for-loop: a candidate is generated
\* and looked up; it is assigned (break), or the loop goes on, or its else
\* clause raises ValueError.
Attempt(p) ==
    /\ pc[p] = "gen"
    /\ LET fr == frame[p]
           ids == Nanoid(field)
       IN  IF ids.kind = "raise"
           THEN /\ Finished(p, ids)
                /\ UNCHANGED <<inst, frame, attempts, cand>>
           ELSE \E field_value_new \in ids.value :
                /\ attempts' = [attempts EXCEPT ![p] = attempts[p] + 1]
                /\ IF ~Exists(table, field_value_new)
                   THEN /\ inst' = [inst EXCEPT ![fr.slot].code = field_value_new]
                        /\ cand' = [cand EXCEPT ![p] = field_value_new]
                        /\ frame' = [frame EXCEPT ![p].queries = fr.queries + 1]
                        /\ pc' = [pc EXCEPT ![p] = "write"]
                        /\ UNCHANGED result
                   ELSE /\ frame' = [frame EXCEPT ![p].queries = fr.queries + 1,
                                                  ![p].held = fr.held + 1]
                        /\ UNCHANGED <<inst, cand>>
                        /\ IF attempts'[p] < nanoid_max_attempts
                           THEN UNCHANGED <<pc, result>>
                           ELSE Finished(p, Raise("ValueError: no unique NanoID could be generated"))
    /\ UNCHANGED <<field, table, nextId, children, owner, snap>>
    /\ OrmOnly

\* Lines 143-147: super().save(), with the field's pre_save (a value that is
\* None is generated), the except clause entered on IntegrityError, and, for
\* a call of save() that is not nested in regenerate_nanoid, the commit.
Write(p) ==
    /\ pc[p] = "write"
    /\ LET fr == frame[p]
           obj == inst[fr.slot]
       IN  IF fr.broken
           THEN /\ Finished(p, Raise("TransactionManagementError"))
                /\ UNCHANGED <<table, nextId, inst, frame>>
           ELSE \E v \in (IF obj.code = None THEN Nanoid(field).value ELSE {obj.code}) :
                LET r == SaveTable(table, nextId, field, [obj EXCEPT !.code = v],
                                   fr.force_update, fr.update_fields)
                IN  IF r.outcome = "ok"
                    THEN /\ inst' = [inst EXCEPT ![fr.slot] = r.obj]
                         /\ nextId' = r.nextId
                         /\ UNCHANGED frame
                         /\ IF fr.op = "regenerate"
                            THEN /\ table' = r.table
                                 /\ pc' = [pc EXCEPT ![p] = "relations"]
                                 /\ UNCHANGED result
                            ELSE IF ForeignKeysHold(r.table, children)
                            THEN table' = r.table /\ Finished(p, Return("saved"))
                            ELSE UNCHANGED table /\ Finished(p, Raise("IntegrityError"))
                    ELSE IF r.outcome = "IntegrityError"
                    THEN /\ inst' = [inst EXCEPT ![fr.slot] = r.obj]
                         /\ UNCHANGED <<table, nextId>>
                         /\ IF fr.retry
                            THEN Finished(p, Raise("IntegrityError")) /\ UNCHANGED frame
                            ELSE /\ \E b \in BOOLEAN :
                                      frame' = [frame EXCEPT ![p].retry = TRUE,
                                                             ![p].broken = b,
                                                             ![p].failed = r.obj.code]
                                 /\ pc' = [pc EXCEPT ![p] = "select"]
                                 /\ UNCHANGED result
                    ELSE /\ Finished(p, Raise(r.outcome))
                         /\ UNCHANGED <<table, nextId, inst, frame>>
    /\ UNCHANGED <<field, children, owner, attempts, cand, snap>>
    /\ OrmOnly

\* Lines 198-213 and the end of the atomic block of line 186: the reverse
\* relations are updated and the transaction commits, or fails on a foreign
\* key and is rolled back.
Relations(p) ==
    /\ pc[p] = "relations"
    /\ LET fr == frame[p]
           new_value == inst[fr.slot].code
           ch == IF HasDependents(field)
                 THEN UpdateRelations(children, fr.old_value, new_value)
                 ELSE children
       IN  IF ForeignKeysHold(table, ch)
           THEN /\ children' = ch
                /\ UNCHANGED table
                /\ Finished(p, Return("self"))
           ELSE /\ table' = snap[p].table
                /\ children' = snap[p].children
                /\ Finished(p, Raise("IntegrityError"))
    /\ UNCHANGED <<field, nextId, inst, owner, frame, attempts, cand, snap>>
    /\ OrmOnly

\* The caller has seen the result; the process is idle again.
Finish(p) ==
    /\ pc[p] = "done"
    /\ pc' = [pc EXCEPT ![p] = "idle"]
    /\ frame' = [frame EXCEPT ![p] = NoFrame]
    /\ attempts' = [attempts EXCEPT ![p] = 0]
    /\ cand' = [cand EXCEPT ![p] = None]
    /\ result' = [result EXCEPT ![p] = NoCall]
    /\ snap' = [snap EXCEPT ![p] = NoSnap]
    /\ UNCHANGED <<field, table, nextId, children, inst, owner>>
    /\ OrmOnly

\* Everything but the field and the owners of the instances.
InitOrm ==
    /\ table = {} /\ nextId = 1
    /\ children = [c \in Kids |-> None]
    /\ inst = [i \in Slots |-> NoInstance]
    /\ pc = [q \in Procs |-> "idle"]
    /\ frame = [q \in Procs |-> NoFrame]
    /\ attempts = [q \in Procs |-> 0]
    /\ cand = [q \in Procs |-> None]
    /\ result = [q \in Procs |-> NoCall]
    /\ snap = [q \in Procs |-> NoSnap]

\* Two processes, each saving new records of the model with the default
\* unique field; every process has its own instance (slot p).
ConcField == NanoIDField([alphabet |-> ModelAlphabet, size |-> 1], EmptyDict)

Init ==
    /\ FieldIdle /\ UploadIdle /\ storage = {} /\ InitOrm
    /\ field \in {NanoIDField(kw, EmptyDict) : kw \in ModelFieldKwargs}
    /\ owner = [i \in Slots |-> 1]

Next ==
    \/ \E i \in Slots : New(i)
    \/ \E i \in Slots : Load(i)
    \/ \E c \in Kids : ChildSet(c)
    \/ \E i \in Slots : SaveBegin(1, i)
    \/ \E i \in Slots : RegenerateBegin(1, i)
    \/ Select(1)
    \/ Attempt(1)
    \/ Write(1)
    \/ Relations(1)
    \/ Finish(1)

Spec == Init /\ [][Next]_vars

InitConc ==
    /\ FieldIdle /\ UploadIdle /\ storage = {} /\ InitOrm
    /\ field = ConcField
    /\ owner = [i \in Slots |-> IF i \in Procs THEN i ELSE 1]

NextConc ==
    \E p \in Procs :
        \/ New(p)
        \/ SaveBegin(p, p)
        \/ Select(p)
        \/ Attempt(p)
        \/ Write(p)
        \/ Finish(p)

SpecConc == InitConc /\ [][NextConc]_vars

InitUploadAll == FieldIdle /\ InitUpload /\ OrmIdle

NextUpload ==
    \/ UploadBegin
    \/ UploadGenerate
    \/ UploadCheck
    \/ FileSaved
    \/ UploadForget

SpecUpload == InitUploadAll /\ [][NextUpload]_vars

InitFieldAll == InitField /\ UploadIdle /\ storage = {} /\ OrmIdle

NextField ==
    \/ GetAlphabetCall
    \/ FieldConstruct
    \/ FieldDeconstruct
    \/ FieldReconstruct

SpecField == InitFieldAll /\ [][NextField]_vars

(***************************************************************************)
(* Properties                                                              *)
(***************************************************************************)
\* The instance the running call of process p works on.
Obj(p) == inst[frame[p].slot]

ExhaustedError == Raise("ValueError: no unique NanoID could be generated")

\* C1: in ensure_unique_nanoids at most 10 candidates are generated for a
\* field, each is looked up once, the loop stops at the first candidate no
\* row holds, and that candidate is the value assigned: when it is assigned
\* (the call is about to write) no row of the table holds it.
C1_EnsureUniqueLoop ==
    \A p \in Procs :
        /\ attempts[p] <= 10
        /\ frame[p].queries = attempts[p]
        /\ pc[p] = "gen" => frame[p].held = attempts[p]
        /\ (pc[p] = "write" /\ frame[p].generate) =>
              /\ Obj(p).code = cand[p]
              /\ \A r \in table : r.code # cand[p]
              /\ frame[p].held = attempts[p] - 1

\* A candidate was refused, and a later one is assigned.
C1_Witness ==
    \E p \in Procs :
        /\ pc[p] = "write" /\ frame[p].generate
        /\ attempts[p] > 1 /\ table # {}

\* C2: no two rows hold the same value in a unique NanoID field.
C2_UniqueRows ==
    FieldUnique(field) => \A r1, r2 \in table : r1.code = r2.code => r1 = r2

\* Two rows, after a regenerate_nanoid that returned.
C2_Witness ==
    /\ FieldUnique(field) /\ ~field.primary_key
    /\ Cardinality(table) = 2
    /\ \E p \in Procs : pc[p] = "done" /\ frame[p].op = "regenerate"
                        /\ result[p] = Return("self")

\* C3: when all 10 candidates are held by rows, ensure_unique_nanoids raises
\* ValueError, the field keeps the value it had before the loop, and the
\* ValueError leaves save() with the table (and the dependent table) as
\* they were; ValueError from the loop means 10 candidates were held.
C3_ExhaustionRaises ==
    \A p \in Procs :
        /\ frame[p].held = 10 => (pc[p] = "done" /\ result[p] = ExhaustedError)
        /\ (pc[p] = "done" /\ result[p] = ExhaustedError) =>
              /\ frame[p].held = 10
              /\ Obj(p).code = frame[p].before
              /\ table = snap[p].table
              /\ children = snap[p].children

\* save() of a record raised ValueError after ten held candidates.
C3_Witness ==
    \E p \in Procs :
        /\ pc[p] = "done" /\ result[p] = ExhaustedError
        /\ frame[p].op = "save" /\ table # {}

UnknownPredefined(args) ==
    /\ args.alphabet \in {None, ""}
    /\ args.alphabet_predefined \notin {None, ""}
    /\ args.alphabet_predefined \notin DOMAIN ALPHABET_CONFIG

\* C4, read literally: at most 10 candidate paths, the first that does not exist
\* is returned, and ValueError is raised exactly when all 10 exist.
C4_Original ==
    /\ ugenerated <= 10
    /\ (upc = "done" /\ uresult.kind = "return") =>
          /\ uresult.value = ucand /\ ucand \notin storage
          /\ uattempts = ugenerated - 1
    /\ upc = "done" => (uresult.kind = "raise" <=> uattempts = 10)

\* C4, with the unknown-name case: at most 10 candidate paths, the first that does not exist is
\* returned; ValueError is raised when all 10 exist, and also, before any
\* candidate is generated, when no custom alphabet is given and
\* alphabet_predefined names no predefined alphabet; in no other case.
C4_UploadLoop ==
    /\ ugenerated <= 10
    /\ (upc = "done" /\ uresult.kind = "return") =>
          /\ uresult.value = ucand /\ ucand \notin storage
          /\ uattempts = ugenerated - 1
    /\ upc = "done" =>
          (uresult.kind = "raise" <=>
              \/ uattempts = 10 /\ ugenerated = 10
              \/ ugenerated = 0 /\ UnknownPredefined(uargs))
    /\ uresult.kind = "raise" => uresult.value = "ValueError"

\* All ten candidates existed in storage.
C4_Witness == upc = "done" /\ uresult.kind = "raise" /\ uattempts = 10

\* The code of the row the instance of process p's call stood for when the
\* call began.
StoredCode(p) ==
    LET rows == {r \in snap[p].table : r.id = snap[p].obj.id}
    IN  IF rows = {} THEN None ELSE (CHOOSE r \in rows : TRUE).code

\* C5: after regenerate_nanoid succeeds, the dependent records that
\* referenced this record reference it with its new value, and those that
\* referenced other records are unchanged.
C5_DependentsFollow ==
    \A p \in Procs :
        (pc[p] = "done" /\ frame[p].op = "regenerate" /\ result[p] = Return("self")
         /\ HasDependents(field)) =>
            \A c \in Kids :
                /\ (snap[p].children[c] # None /\ snap[p].children[c] = StoredCode(p))
                      => children[c] = Obj(p).code
                /\ (snap[p].children[c] # None /\ snap[p].children[c] # StoredCode(p))
                      => children[c] = snap[p].children[c]

\* C6: a save() whose write failed with IntegrityError ends with the record
\* saved under a different value.
C6_RetrySaves ==
    \A p \in Procs :
        (pc[p] = "done" /\ frame[p].retry) =>
            /\ result[p].kind = "return"
            /\ Obj(p).code # frame[p].failed
            /\ \E r \in table : r.code = Obj(p).code

\* C7: regenerate_nanoid rejects a name that is no NanoID field, then the
\* primary key, then (force False) an answer other than y or Y; a rejected
\* call changes neither the instance nor the tables, and a call that is not
\* rejected passed all three.
C7_RegenerateRejects ==
    \A p \in Procs :
        frame[p].op = "regenerate" =>
            LET fr == frame[p]
                notNano == fr.field_name # "code"
                isPk == fr.field_name = (IF field.primary_key THEN "code" ELSE "id")
                refused == ~fr.force /\ fr.confirmation \notin {"y", "Y"}
                rejections == {Raise("ValueError: not a NanoID field"),
                               Raise("ValueError: cannot regenerate the primary key"),
                               Raise("UserWarning")}
            IN  /\ notNano => (pc[p] = "done" /\ result[p] = Raise("ValueError: not a NanoID field"))
                /\ (~notNano /\ isPk) =>
                      (pc[p] = "done" /\ result[p] = Raise("ValueError: cannot regenerate the primary key"))
                /\ (~notNano /\ ~isPk /\ refused) =>
                      (pc[p] = "done" /\ result[p] = Raise("UserWarning"))
                /\ (~notNano /\ ~isPk /\ ~refused) => result[p] \notin rejections
                /\ result[p] \in rejections =>
                      /\ Obj(p) = snap[p].obj
                      /\ table = snap[p].table
                      /\ children = snap[p].children

\* The primary key is rejected although the answer would have been refused
\* too, with rows in the table.
C7_Witness ==
    \E p \in Procs :
        /\ pc[p] = "done"
        /\ result[p] = Raise("ValueError: cannot regenerate the primary key")
        /\ ~frame[p].force /\ frame[p].confirmation = "n"
        /\ table # {}

C9_DeconstructRoundTrip ==
    /\ fstage \in {"deconstructed", "rebuilt"} => "default" \notin DOMAIN fdecon
    /\ fstage = "rebuilt" =>
          /\ ffield2.alphabet = ffield.alphabet
          /\ ffield2.alphabet_predefined = ffield.alphabet_predefined
          /\ ffield2.size = ffield.size
          /\ ffield2.max_length = ffield.max_length
          /\ ffield2.max_length = ffield.size
          /\ ffield2.editable = ffield.editable
          /\ (ffield2.unique \/ ffield2.primary_key) = (ffield.unique \/ ffield.primary_key)

\* A field with a size of its own, not unique, rebuilt under settings that
\* set another NANOID_SIZE.
C9_Witness ==
    /\ fstage = "rebuilt"
    /\ "size" \in DOMAIN fkwargs /\ ffield.size = 2
    /\ fsettings = [k \in {"NANOID_SIZE"} |-> 1]
    /\ ~ffield.unique /\ ffield.editable /\ ffield.alphabet = "ab"

\* C10: with two processes saving new records, no state of the table holds
\* two rows with the same value of the unique NanoID field, and a write of
\* a value that another row already holds stores nothing: it fails, with
\* IntegrityError.
C10_ConcurrentInserts ==
    [][/\ \A r1, r2 \in table' : r1.code = r2.code => r1 = r2
       /\ \A p \in Procs :
            (pc[p] = "write" /\ pc'[p] # "write"
             /\ \E r \in table : r.code = Obj(p).code /\ r.id # Obj(p).id) =>
                /\ table' = table
                /\ frame'[p].retry \/ result'[p] = Raise("IntegrityError")
                /\ frame[p].retry =>
                      result'[p] \in {Raise("IntegrityError"),
                                      Raise("TransactionManagementError")}]_vars

\* A process passed the existence check with a candidate that, before its
\* insert, another process has stored.
C10_Witness ==
    \E p \in Procs :
        /\ pc[p] = "write" /\ frame[p].generate /\ ~frame[p].retry
        /\ \E r \in table : r.code = Obj(p).code /\ r.id # Obj(p).id

====
